---- MODULE Spec2Model ----
(***************************************************************************)
(* The recurring-transaction catch-up engine (processRecurringTransactions)*)
(* and the storage it works on: the recurring_transactions, transactions   *)
(* and accounts tables.  Every `await db(...)` of the engine is one atomic *)
(* storage call and one action; the local computation between two storage  *)
(* calls belongs to the action of the call that precedes it.               *)
(*                                                                         *)
(* Dates are calendar dates written year*10000 + month*100 + day, the      *)
(* number whose digits are the 'YYYY-MM-DD' string the code builds with    *)
(* padStart; the order of those numbers is the order of the strings and of *)
(* the dates.  Time zones are not modelled.  NULL is 0.                    *)
(***************************************************************************)
EXTENDS Integers, Sequences, FiniteSets, TLC

VARIABLES recurring,      \* table recurring_transactions: id -> row
          transactions,   \* table transactions: a set of rows
          accounts,       \* table accounts: id -> row
          nextId,         \* the serial of transactions.id
          inv,            \* the invocations of processRecurringTransactions
          faults,         \* storage faults and crashes injected so far
          runs,           \* invocations started so far
          edits,          \* user edits of templates made so far
          hist,           \* history of the behaviour, read by the properties only
          foreignKey,     \* whether transactions.recurring_transaction_id has
                          \* its foreign key: "yes", "no", or "unknown" as long
                          \* as no step has depended on it
          req             \* the request to a route of /api/transactions that
                          \* is being handled

vars == <<recurring, transactions, accounts, nextId, inv, faults, runs, edits, hist,
          foreignKey, req>>

NULL == 0

----------------------------------------------------------------------------
(* Bounds of the model *)

\* number of calendar periods after the first one that `now` ranges over
MaxPeriod == 3
\* disturbances in one behaviour: storage faults, crashes and user edits
MaxDisturbances == 1
\* invocations started in one behaviour
MaxRuns == 2

----------------------------------------------------------------------------
(* Calendar *)

CompactDate(year, month, day) == year * 10000 + month * 100 + day
getFullYear(date) == date \div 10000
getMonth1(date) == (date \div 100) % 100      \* getMonth() + 1
getDate(date) == date % 100

\* a variant with a leap year every fourth year
IsLeapYearEveryFourth(year) == year % 4 = 0

IsLeapYear(year) == (year % 4 = 0 /\ year % 100 # 0) \/ year % 400 = 0

\* new Date(targetYear, targetMonth, 0).getDate()
LastDayOfMonth(year, month) ==
    IF month = 2 THEN (IF IsLeapYear(year) THEN 29 ELSE 28)
    ELSE IF month \in {4, 6, 9, 11} THEN 30 ELSE 31

Min(a, b) == IF a <= b THEN a ELSE b

\* the period (year, month) of a date, as one number
PeriodOf(date) == date \div 100
PeriodYM(year, month) == year * 100 + month

\* the first period of the timeline is December 2023: the timeline crosses a
\* year end and a leap February
TimelinePeriod(k) ==
    LET m0 == 2023 * 12 + 11 + k
    IN  [year |-> m0 \div 12, month |-> (m0 % 12) + 1]

NowDays == {12}

\* The years in which single months are processed to test the date of the
\* transaction: common years, leap years, and century years of both kinds.
ClampYears == {1900, 2000, 2023, 2024, 2100}

ClampNows == { CompactDate(y, m, d) : y \in ClampYears, m \in 1..12, d \in NowDays }

Nows == { CompactDate(TimelinePeriod(k).year, TimelinePeriod(k).month, d) :
            k \in 0..MaxPeriod, d \in NowDays }

----------------------------------------------------------------------------
(* The tables *)

TemplateIds == {1, 2}
AccountIds == {1, 2}
Procs == {1, 2}
UserId == 1

\* a row of recurring_transactions
Template(account, dom, amount, expense, start, end, last, active) ==
    [exists |-> TRUE, user_id |-> UserId, account_id |-> account,
     day_of_month |-> dom, amount |-> amount, is_expense |-> expense,
     start_date |-> start, end_date |-> end, last_processed |-> last,
     is_active |-> active]

NoTemplate ==
    [exists |-> FALSE, user_id |-> UserId, account_id |-> 1,
     day_of_month |-> 1, amount |-> 0, is_expense |-> FALSE,
     start_date |-> NULL, end_date |-> NULL, last_processed |-> NULL,
     is_active |-> FALSE]

\* The templates a behaviour starts with.  Template 1 ranges over the cases the
\* engine distinguishes: a nominal day every month has (10) or one most months
\* lack (31), an expense or an income, with or without an end date, active or not,
\* and either seeded as POST / seeds it (last_processed = start_date, the date
\* of the manual entry) or never processed (last_processed NULL).
StartDates == { CompactDate(2023, 12, 10), CompactDate(2023, 12, 31) }
EndDates == { NULL, CompactDate(2024, 1, 31), CompactDate(2024, 2, 15) }

InitialTemplates ==
    { Template(1, getDate(start), 3, getDate(start) = 10, start, end,
               IF seeded THEN start ELSE NULL, active) :
        start \in StartDates, end \in EndDates,
        seeded \in BOOLEAN, active \in BOOLEAN }

----------------------------------------------------------------------------
(* processRecurringTransactions: the pure parts *)

\* a variant without the clauses on a last_processed of an earlier month: a
\* processed template is selected only once its day of the month has come
EligibleDayPassed(r, now) ==
    LET currentDay == getDate(now)
        currentMonth == getMonth1(now)
        currentYear == getFullYear(now)
        lp == r.last_processed
    IN  /\ r.exists
        /\ r.is_active
        /\ (r.end_date = NULL \/ r.end_date >= now)
        /\ \/ lp = NULL
           \/ getFullYear(lp) # currentYear
           \/ getMonth1(lp) # currentMonth
        /\ \/ lp = NULL
           \/ r.day_of_month <= currentDay

\* a variant without the clause on is_active
EligibleInactiveToo(r, now) ==
    LET currentDay == getDate(now)
        currentMonth == getMonth1(now)
        currentYear == getFullYear(now)
        lp == r.last_processed
    IN  /\ r.exists
        /\ (r.end_date = NULL \/ r.end_date >= now)
        /\ \/ lp = NULL
           \/ getFullYear(lp) # currentYear
           \/ getMonth1(lp) # currentMonth
        /\ \/ lp = NULL
           \/ r.day_of_month <= currentDay
           \/ getFullYear(lp) < currentYear
           \/ (getFullYear(lp) = currentYear /\ getMonth1(lp) < currentMonth)

\* the WHERE clauses of the query that selects the templates to process
Eligible(r, now) ==
    LET currentDay == getDate(now)
        currentMonth == getMonth1(now)
        currentYear == getFullYear(now)
        lp == r.last_processed
    IN  /\ r.exists
        /\ r.is_active
        /\ (r.end_date = NULL \/ r.end_date >= now)
        /\ \/ lp = NULL
           \/ getFullYear(lp) # currentYear
           \/ getMonth1(lp) # currentMonth
        /\ \/ lp = NULL
           \/ r.day_of_month <= currentDay
           \/ getFullYear(lp) < currentYear
           \/ (getFullYear(lp) = currentYear /\ getMonth1(lp) < currentMonth)

\* month += 1; if (month > 12) { month = 1; year += 1 }
NextMonth(ym) ==
    IF ym.month + 1 > 12 THEN [month |-> 1, year |-> ym.year + 1]
    ELSE [month |-> ym.month + 1, year |-> ym.year]

\* the values the loop variables month and year take
CalendarMonths ==
    [month : 1..12,
     year : (2023..TimelinePeriod(MaxPeriod + 1).year)
              \cup ClampYears \cup { y + 1 : y \in ClampYears }]

\* a variant whose loop stops before the current month
MonthsFromBeforeCurrent(first, now) ==
    LET loop[ym \in CalendarMonths] ==
            IF ym.year < getFullYear(now)
               \/ (ym.year = getFullYear(now) /\ ym.month < getMonth1(now))
            THEN <<ym>> \o loop[NextMonth(ym)]
            ELSE <<>>
    IN  loop[first]

\* the while loop that fills monthsToProcess, entered with (month, year) = first
MonthsFrom(first, now) ==
    LET loop[ym \in CalendarMonths] ==
            IF ym.year < getFullYear(now)
               \/ (ym.year = getFullYear(now) /\ ym.month <= getMonth1(now))
            THEN <<ym>> \o loop[NextMonth(ym)]
            ELSE <<>>
    IN  loop[first]

\* the starting point: last_processed if it exists, otherwise start_date
StartingPoint(r) ==
    IF r.last_processed # NULL THEN r.last_processed ELSE r.start_date

\* a variant that starts from the month of the starting point itself
MonthsToProcessFromStart(r, now) ==
    LET startDate == StartingPoint(r)
    IN  MonthsFrom([month |-> getMonth1(startDate),
                    year |-> getFullYear(startDate)], now)

\* monthsToProcess of one template: from the month after the starting point
\* up to and including the current month
MonthsToProcess(r, now) ==
    LET startDate == StartingPoint(r)
    IN  MonthsFrom(NextMonth([month |-> getMonth1(startDate),
                              year |-> getFullYear(startDate)]), now)

\* a variant that keeps the magnitude for an expense
SignedAmountMagnitude(r) == r.amount

\* amount = is_expense ? -amount : amount
SignedAmount(r) == IF r.is_expense THEN 0 - r.amount ELSE r.amount

\* a variant that writes the month as getMonth() numbers it, from 0
TransactionDateZeroBasedMonth(r, targetYear, targetMonth) ==
    CompactDate(targetYear, targetMonth - 1,
                Min(r.day_of_month, LastDayOfMonth(targetYear, targetMonth)))

\* the date of the transaction of a target month: day_of_month, or the last
\* day of the month when the month is shorter
TransactionDate(r, targetYear, targetMonth) ==
    CompactDate(targetYear, targetMonth,
                Min(r.day_of_month, LastDayOfMonth(targetYear, targetMonth)))

\* a variant that never finds the end date passed
EndDateNeverPassed(r, transactionDate) == FALSE

\* recurring.end_date && new Date(transactionDate) > new Date(recurring.end_date)
EndDatePassed(r, transactionDate) ==
    r.end_date # NULL /\ transactionDate > r.end_date

\* a variant that subtracts the amount
NewBalanceSubtract(balance, amount) == balance - amount

\* balance: db.raw('balance + ?', [amount])
NewBalance(balance, amount) == balance + amount

\* a variant that compares the month as getMonth() numbers it, from 0
ExistingTransactionsZeroBasedMonth(r, id, targetYear, targetMonth) ==
    { t \in transactions :
        /\ t.user_id = r.user_id
        /\ t.account_id = r.account_id
        /\ t.recurring_transaction_id = id
        /\ getFullYear(t.date) = targetYear
        /\ getMonth1(t.date) - 1 = targetMonth }

\* a variant that does not filter on recurring_transaction_id
ExistingTransactionsAnyTemplate(r, id, targetYear, targetMonth) ==
    { t \in transactions :
        /\ t.user_id = r.user_id
        /\ t.account_id = r.account_id
        /\ getFullYear(t.date) = targetYear
        /\ getMonth1(t.date) = targetMonth }

\* the rows the existence query matches; .first() returns one of them
ExistingTransactions(r, id, targetYear, targetMonth) ==
    { t \in transactions :
        /\ t.user_id = r.user_id
        /\ t.account_id = r.account_id
        /\ t.recurring_transaction_id = id
        /\ getFullYear(t.date) = targetYear
        /\ getMonth1(t.date) = targetMonth }

----------------------------------------------------------------------------
(* processRecurringTransactions: the invocation *)

\* what the storage holds
Storage == [recurring |-> recurring, transactions |-> transactions,
            accounts |-> accounts]

EmptyStorage ==
    [recurring |-> [id \in TemplateIds |-> NoTemplate], transactions |-> {},
     accounts |-> [a \in AccountIds |-> [balance |-> 0, user_id |-> UserId]]]

\* An invocation: pc is the storage call it is about to make.  pre.recurring is
\* the result of the query (the rows as they were read), order the order the
\* rows came back in, idx the position of the for loop over them, months the
\* local monthsToProcess of the row at idx, mi the position of the for loop
\* over it.  pre, clean, created and
\* countOf are history, as are the fields of hist (what the invocation before
\* the current one was and how it ended): the storage when the invocation started, whether every
\* storage call of it succeeded, the ids of the transactions it inserted and
\* the part of totalProcessed counted for each template; failed is the set of
\* the templates whose pass ended in the inner catch.
Idle ==
    [pc |-> "idle", now |-> NULL, order |-> <<>>, idx |-> 0, months |-> <<>>,
     mi |-> 0, lastProcessedDate |-> NULL, totalProcessed |-> 0,
     pre |-> EmptyStorage, clean |-> TRUE, created |-> {},
     countOf |-> [id \in TemplateIds |-> 0], failed |-> {}]

Running == {"select", "insert", "balance", "update"}

CurrentId(s) == s.order[s.idx]
CurrentRow(s) == s.pre.recurring[CurrentId(s)]
CurrentMonths(s) == s.months
CurrentTarget(s) == CurrentMonths(s)[s.mi]
CurrentDate(s) ==
    TransactionDate(CurrentRow(s), CurrentTarget(s).year, CurrentTarget(s).month)

\* the invocation returns { processed: totalProcessed }
Returned(s) ==
    [s EXCEPT !.pc = "returned", !.order = <<>>, !.idx = 0, !.months = <<>>,
              !.mi = 0, !.lastProcessedDate = NULL]

RECURSIVE NextTemplateUpdates(_, _)
\* a variant that writes last_processed for a row with no month to process
NextTemplateUpdates(s, k) ==
    IF k > Len(s.order) THEN Returned(s)
    ELSE LET s1 == [s EXCEPT !.idx = k, !.mi = 1, !.lastProcessedDate = NULL,
                             !.months = MonthsToProcess(s.pre.recurring[s.order[k]],
                                                        s.now)]
         IN  IF CurrentMonths(s1) = <<>> THEN [s1 EXCEPT !.pc = "update"]
             ELSE [s1 EXCEPT !.pc = "select"]

RECURSIVE NextTemplate(_, _)
\* the for loop over the rows moves to row k: a row with no month to process
\* makes no storage call
NextTemplate(s, k) ==
    IF k > Len(s.order) THEN Returned(s)
    ELSE LET s1 == [s EXCEPT !.idx = k, !.mi = 1, !.lastProcessedDate = NULL,
                             !.months = MonthsToProcess(s.pre.recurring[s.order[k]],
                                                        s.now)]
         IN  IF CurrentMonths(s1) = <<>> THEN NextTemplate(s1, k + 1)
             ELSE [s1 EXCEPT !.pc = "select"]

\* after the loop over the months: update last_processed if a month was handled
AfterLoop(s) ==
    IF s.lastProcessedDate # NULL THEN [s EXCEPT !.pc = "update"]
    ELSE NextTemplate(s, s.idx + 1)

\* a variant in which the loop over the months does not move to the next month
AfterMonthStays(s) == [s EXCEPT !.pc = "select"]

\* the loop over the months moves on (continue, or the end of its body)
AfterMonth(s) ==
    IF s.mi + 1 > Len(CurrentMonths(s)) THEN AfterLoop([s EXCEPT !.mi = @ + 1])
    ELSE [s EXCEPT !.mi = @ + 1, !.pc = "select"]

\* the orders in which the query may return the rows it selects
Orders(ids) ==
    { o \in UNION { [1..n -> ids] : n \in {Cardinality(ids)} } :
        \A a, b \in 1..Cardinality(ids) : a # b => o[a] # o[b] }

Sequential == \A i \in Procs : inv[i].pc \notin Running

\* the query succeeds and the loops run up to the first storage call
Start(i, now) ==
    /\ inv[i].pc \notin Running
    /\ runs < MaxRuns
    /\ runs' = runs + 1
    /\ LET ids == { id \in TemplateIds : Eligible(recurring[id], now) }
       IN  \E o \in Orders(ids) :
             inv' = [inv EXCEPT ![i] =
                       NextTemplate([Idle EXCEPT !.now = now, !.order = o,
                                                 !.pre = Storage], 1)]
    /\ hist' = [hist EXCEPT
                  !.prevOk = inv[i].pc = "returned" /\ inv[i].clean,
                  !.prevNow = inv[i].now,
                  !.prevCount = inv[i].totalProcessed,
                  !.prevCrash = inv[i].pc = "crashed" /\ inv[i].mi > 1]
    /\ UNCHANGED <<recurring, transactions, accounts, nextId, faults, edits, foreignKey, req>>

\* a variant in which the outer catch swallows the error and the invocation
\* returns a count
StartFailReturns(i, now) ==
    /\ inv[i].pc \notin Running
    /\ runs < MaxRuns
    /\ runs' = runs + 1
    /\ faults + edits < MaxDisturbances
    /\ inv' = [inv EXCEPT ![i] = [Idle EXCEPT !.pc = "returned", !.now = now,
                                              !.pre = Storage, !.clean = FALSE]]
    /\ faults' = faults + 1
    /\ hist' = [hist EXCEPT !.everFault = TRUE, !.prevOk = FALSE,
                            !.prevNow = inv[i].now, !.prevCount = 0,
                            !.prevCrash = FALSE]
    /\ UNCHANGED <<recurring, transactions, accounts, nextId, edits, foreignKey, req>>

\* the query fails: the outer catch logs and rethrows
StartFail(i, now) ==
    /\ inv[i].pc \notin Running
    /\ runs < MaxRuns
    /\ runs' = runs + 1
    /\ faults + edits < MaxDisturbances
    /\ inv' = [inv EXCEPT ![i] = [Idle EXCEPT !.pc = "thrown", !.now = now,
                                              !.pre = Storage, !.clean = FALSE]]
    /\ faults' = faults + 1
    /\ hist' = [hist EXCEPT !.everFault = TRUE, !.prevOk = FALSE,
                            !.prevNow = inv[i].now, !.prevCount = 0,
                            !.prevCrash = FALSE]
    /\ UNCHANGED <<recurring, transactions, accounts, nextId, edits, foreignKey, req>>

\* the existence query of one month, then the end-date check
Select(i) ==
    LET s == inv[i]
    IN  /\ s.pc = "select"
        /\ LET ex == ExistingTransactions(CurrentRow(s), CurrentId(s),
                                          CurrentTarget(s).year, CurrentTarget(s).month)
           IN  IF ex # {}
               THEN \E e \in ex :
                      inv' = [inv EXCEPT ![i] =
                                AfterMonth([s EXCEPT !.lastProcessedDate = e.date])]
               ELSE IF EndDatePassed(CurrentRow(s), CurrentDate(s))
               THEN inv' = [inv EXCEPT ![i] = AfterLoop(s)]
               ELSE inv' = [inv EXCEPT ![i] = [s EXCEPT !.pc = "insert"]]
        /\ UNCHANGED <<recurring, transactions, accounts, nextId, faults, runs, edits, hist, foreignKey, req>>

\* db('transactions').insert(...).  When the template was deleted since the
\* query and the foreign key is there, the insert violates it and throws: the
\* inner catch logs the error and the loop goes to the next row.
Insert(i) ==
    LET s == inv[i]
        r == CurrentRow(s)
    IN  /\ s.pc = "insert"
        /\ IF foreignKey = "yes" /\ ~recurring[CurrentId(s)].exists
           THEN /\ inv' = [inv EXCEPT ![i] =
                             NextTemplate([s EXCEPT !.clean = FALSE,
                                                    !.failed = @ \cup {CurrentId(s)}],
                                          s.idx + 1)]
                /\ UNCHANGED <<transactions, nextId>>
           ELSE /\ transactions' = transactions \cup
                     {[id |-> nextId, user_id |-> r.user_id,
                       account_id |-> r.account_id,
                       date |-> CurrentDate(s), amount |-> SignedAmount(r),
                       recurring_transaction_id |-> CurrentId(s)]}
                /\ nextId' = nextId + 1
                /\ inv' = [inv EXCEPT ![i] = [s EXCEPT !.pc = "balance",
                                                       !.created = @ \cup {nextId}]]
        /\ UNCHANGED <<recurring, accounts, faults, runs, edits, hist, foreignKey, req>>

\* a variant that writes the balance the invocation computes from the balance
\* it found when it started, instead of incrementing the stored one
BalanceFromRead(i) ==
    LET s == inv[i]
        r == CurrentRow(s)
    IN  /\ s.pc = "balance"
        /\ accounts' = [a \in AccountIds |->
                          IF a = r.account_id /\ accounts[a].user_id = r.user_id
                          THEN [accounts[a] EXCEPT !.balance =
                                  s.pre.accounts[a].balance
                                    + (s.totalProcessed + 1) * SignedAmount(r)]
                          ELSE accounts[a]]
        /\ inv' = [inv EXCEPT ![i] =
                     AfterMonth([s EXCEPT !.lastProcessedDate = CurrentDate(s),
                                          !.totalProcessed = @ + 1,
                                          !.countOf[CurrentId(s)] = @ + 1])]
        /\ UNCHANGED <<recurring, transactions, nextId, faults, runs, edits, hist, foreignKey, req>>

\* db('accounts').update({ balance: balance + amount }), then the counters
Balance(i) ==
    LET s == inv[i]
        r == CurrentRow(s)
    IN  /\ s.pc = "balance"
        /\ accounts' = [a \in AccountIds |->
                          IF a = r.account_id /\ accounts[a].user_id = r.user_id
                          THEN [accounts[a] EXCEPT !.balance = NewBalance(@, SignedAmount(r))]
                          ELSE accounts[a]]
        /\ inv' = [inv EXCEPT ![i] =
                     AfterMonth([s EXCEPT !.lastProcessedDate = CurrentDate(s),
                                          !.totalProcessed = @ + 1,
                                          !.countOf[CurrentId(s)] = @ + 1])]
        /\ UNCHANGED <<recurring, transactions, nextId, faults, runs, edits, hist, foreignKey, req>>

\* a variant that also deactivates a template whose end date lies before the
\* invocation's date
UpdateDeactivates(i) ==
    LET s == inv[i]
        id == CurrentId(s)
    IN  /\ s.pc = "update"
        /\ recurring' = [recurring EXCEPT ![id] =
                           IF @.exists
                           THEN [@ EXCEPT !.last_processed = s.lastProcessedDate,
                                          !.is_active =
                                             @ /\ (recurring[id].end_date = NULL
                                                   \/ recurring[id].end_date >= s.now)]
                           ELSE @]
        /\ inv' = [inv EXCEPT ![i] = NextTemplate(s, s.idx + 1)]
        /\ UNCHANGED <<transactions, accounts, nextId, faults, runs, edits, hist, foreignKey, req>>

\* db('recurring_transactions').update({ last_processed: lastProcessedDate })
Update(i) ==
    LET s == inv[i]
        id == CurrentId(s)
    IN  /\ s.pc = "update"
        /\ recurring' = [recurring EXCEPT ![id] =
                           IF @.exists
                           THEN [@ EXCEPT !.last_processed = s.lastProcessedDate]
                           ELSE @]
        /\ inv' = [inv EXCEPT ![i] = NextTemplate(s, s.idx + 1)]
        /\ UNCHANGED <<transactions, accounts, nextId, faults, runs, edits, hist, foreignKey, req>>

\* a variant in which the error leaves the loop over the rows: the invocation
\* ends at the first failure
FailAborts(i) ==
    LET s == inv[i]
    IN  /\ s.pc \in Running
        /\ faults + edits < MaxDisturbances
        /\ faults' = faults + 1
        /\ inv' = [inv EXCEPT ![i] =
                     Returned([s EXCEPT !.clean = FALSE,
                                        !.failed = @ \cup {CurrentId(s)}])]
        /\ hist' = [hist EXCEPT !.everFault = TRUE]
        /\ UNCHANGED <<recurring, transactions, accounts, nextId, runs, edits, foreignKey, req>>

\* a storage call inside the loop over the rows fails: the inner catch logs
\* the error and the loop goes to the next row
Fail(i) ==
    LET s == inv[i]
    IN  /\ s.pc \in Running
        /\ faults + edits < MaxDisturbances
        /\ faults' = faults + 1
        /\ inv' = [inv EXCEPT ![i] =
                     NextTemplate([s EXCEPT !.clean = FALSE,
                                            !.failed = @ \cup {CurrentId(s)}],
                                  s.idx + 1)]
        /\ hist' = [hist EXCEPT !.everFault = TRUE]
        /\ UNCHANGED <<recurring, transactions, accounts, nextId, runs, edits, foreignKey, req>>

\* the process stops between two storage calls.  The record keeps, as
\* history, the position in the months when the crash fell between two of them
Crash(i) ==
    LET s == inv[i]
    IN  /\ s.pc \in Running
        /\ faults + edits < MaxDisturbances
        /\ faults' = faults + 1
        /\ inv' = [inv EXCEPT ![i] =
                     [Idle EXCEPT !.pc = "crashed", !.now = s.now, !.pre = s.pre,
                                  !.clean = FALSE,
                                  !.mi = IF s.pc \in {"select", "insert"}
                                         THEN s.mi ELSE 0]]
        /\ hist' = [hist EXCEPT !.everFault = TRUE]
        /\ UNCHANGED <<recurring, transactions, accounts, nextId, runs, edits, foreignKey, req>>

----------------------------------------------------------------------------
(* PUT /recurring/:id: the user edits a template *)

\* A request body: given is the set of the fields it gives (the others are
\* undefined).  The updates object holds only the fields the body gives; an
\* empty end_date is stored as NULL.
ApplyUpdates(r, body) ==
    [r EXCEPT
       !.amount = IF "amount" \in body.given
                  THEN (IF body.amount < 0 THEN 0 - body.amount ELSE body.amount)
                  ELSE @,
       !.day_of_month = IF "day_of_month" \in body.given THEN body.day_of_month ELSE @,
       !.end_date = IF "end_date" \in body.given THEN body.end_date ELSE @,
       !.is_active = IF "is_active" \in body.given THEN body.is_active ELSE @]

Body(field, amount, dom, end, active) ==
    [given |-> {field}, amount |-> amount, day_of_month |-> dom,
     end_date |-> end, is_active |-> active]

\* the request bodies the model sends: each changes one field
EditBodies ==
    { Body("amount", a, 1, NULL, TRUE) : a \in {-7} } \cup
    { Body("day_of_month", 0, d, NULL, TRUE) : d \in {10, 31} } \cup
    { Body("end_date", 0, 1, e, TRUE) : e \in EndDates } \cup
    { Body("is_active", 0, 1, NULL, b) : b \in BOOLEAN }

\* the handler answers 404 when the row is not the user's; otherwise it
\* updates the row
UpdateRecurring(id, body) ==
    /\ faults + edits < MaxDisturbances
    /\ recurring[id].exists
    /\ recurring[id].user_id = UserId
    /\ recurring' = [recurring EXCEPT ![id] = ApplyUpdates(@, body)]
    /\ edits' = edits + 1
    /\ hist' = [hist EXCEPT !.endChanged =
                  IF recurring'[id].end_date # recurring[id].end_date
                  THEN @ \cup {id} ELSE @,
                              !.reactivated =
                  IF recurring'[id].is_active /\ ~recurring[id].is_active
                  THEN @ \cup {id} ELSE @]
    /\ UNCHANGED <<transactions, accounts, nextId, inv, faults, runs, foreignKey, req>>

----------------------------------------------------------------------------
(* The routes of /api/transactions that change entries.  Each storage call of
   a handler is one step; a handler whose storage call throws, or whose
   process stops, ends where it is. *)

RECURSIVE SumAmounts(_)
SumAmounts(S) ==
    IF S = {} THEN 0
    ELSE LET t == CHOOSE x \in S : TRUE IN t.amount + SumAmounts(S \ {t})

\* the transactions of an account
EntriesOfAccount(txs, a) == { t \in txs : t.account_id = a }

\* every balance is the sum of the amounts of the account's transactions
BalanceMatchesEntries ==
    \A a \in AccountIds :
        accounts[a].balance = SumAmounts(EntriesOfAccount(transactions, a))

NoTransaction ==
    [id |-> 0, user_id |-> UserId, account_id |-> 1, date |-> NULL,
     amount |-> 0, recurring_transaction_id |-> NULL]

\* no request is being handled.  Two fields are history: aborted tells that
\* some handler ended between two of its storage calls, consistent that the
\* balances matched the transactions when the handler started.  zone is the
\* time zone of the server: "east" (UTC or east of it), "west", or "unknown"
\* as long as no step has depended on it
NoRequest ==
    [pc |-> "none", tx |-> NoTransaction, is_recurring |-> FALSE,
     rows |-> <<>>, ids |-> {}, aborted |-> FALSE, consistent |-> TRUE,
     zone |-> "unknown"]

Done == [NoRequest EXCEPT !.aborted = req.aborted, !.zone = req.zone]

ServerZones == IF req.zone = "unknown" THEN {"east", "west"} ELSE {req.zone}

\* the day before date
PreviousDay(date) ==
    IF getDate(date) > 1 THEN date - 1
    ELSE IF getMonth1(date) > 1
    THEN CompactDate(getFullYear(date), getMonth1(date) - 1,
                     LastDayOfMonth(getFullYear(date), getMonth1(date) - 1))
    ELSE CompactDate(getFullYear(date) - 1, 12, 31)

\* new Date(date) of a date without a time is midnight UTC of that date; the
\* getters give it in the time of the server, where west of UTC it is still
\* the evening before
LocalDate(date, zone) == IF zone = "west" THEN PreviousDay(date) ELSE date

\* the dates and amounts of the bodies the model sends
ManualDates == {CompactDate(2024, 1, 10)}
ManualAmounts == {-2, 5}

Abs(n) == IF n < 0 THEN 0 - n ELSE n

\* POST /: the account is the user's, the transaction is inserted
CreateTransaction(account_id, date, amount, is_recurring) ==
    /\ req.pc = "none"
    /\ faults + edits < MaxDisturbances
    /\ edits' = edits + 1
    /\ accounts[account_id].user_id = UserId
    /\ LET t == [id |-> nextId, user_id |-> UserId, account_id |-> account_id,
                 date |-> date, amount |-> amount,
                 recurring_transaction_id |-> NULL]
       IN  /\ transactions' = transactions \cup {t}
           /\ \E zone \in (IF is_recurring THEN ServerZones ELSE {req.zone}) :
                req' = [req EXCEPT !.pc = "create_balance", !.tx = t,
                                   !.is_recurring = is_recurring,
                                   !.consistent = BalanceMatchesEntries,
                                   !.zone = zone]
    /\ nextId' = nextId + 1
    /\ UNCHANGED <<recurring, accounts, inv, faults, runs, hist, foreignKey>>

\* POST /: balance + amountNumber
CreateBalance ==
    /\ req.pc = "create_balance"
    /\ accounts' = [a \in AccountIds |->
                      IF a = req.tx.account_id /\ accounts[a].user_id = UserId
                      THEN [accounts[a] EXCEPT !.balance = @ + req.tx.amount]
                      ELSE accounts[a]]
    /\ req' = IF req.is_recurring THEN [req EXCEPT !.pc = "create_recurring"]
              ELSE Done
    /\ UNCHANGED <<recurring, transactions, nextId, inv, faults, runs, edits, hist,
                   foreignKey>>

\* the id the next row of recurring_transactions gets
NewTemplateIds ==
    { id \in TemplateIds : ~recurring[id].exists /\ id \notin hist.deleted }

\* POST /: if (is_recurring), the template is inserted, seeded with the date
CreateRecurring ==
    /\ req.pc = "create_recurring"
    /\ NewTemplateIds # {}
    /\ LET id == CHOOSE n \in NewTemplateIds : \A m \in NewTemplateIds : n <= m
       IN  recurring' = [recurring EXCEPT ![id] =
                           Template(req.tx.account_id,
                                    getDate(LocalDate(req.tx.date, req.zone)),
                                    Abs(req.tx.amount), req.tx.amount < 0,
                                    req.tx.date, NULL, req.tx.date, TRUE)]
    /\ req' = Done
    /\ UNCHANGED <<transactions, accounts, nextId, inv, faults, runs, edits, hist,
                   foreignKey>>

\* the updates of PUT /:id are the body as it is
ApplyEntryUpdates(t, body) ==
    [t EXCEPT
       !.amount = IF "amount" \in body.given THEN body.amount ELSE @,
       !.account_id = IF "account_id" \in body.given THEN body.account_id ELSE @,
       !.date = IF "date" \in body.given THEN body.date ELSE @]

EntryBody(field, amount, account_id, date) ==
    [given |-> {field}, amount |-> amount, account_id |-> account_id,
     date |-> date]

\* the request bodies the model sends: each changes one field
EntryBodies ==
    { EntryBody("amount", a, 1, NULL) : a \in ManualAmounts } \cup
    { EntryBody("account_id", 0, a, NULL) : a \in AccountIds } \cup
    { EntryBody("date", 0, 1, d) : d \in ManualDates }

\* PUT /:id: 404 when the transaction is not the user's; otherwise the row is
\* updated, and nothing else is
UpdateTransaction(id, body) ==
    /\ req.pc = "none"
    /\ faults + edits < MaxDisturbances
    /\ edits' = edits + 1
    /\ \E t \in transactions :
         /\ t.id = id /\ t.user_id = UserId
         /\ transactions' = (transactions \ {t}) \cup {ApplyEntryUpdates(t, body)}
    /\ UNCHANGED <<recurring, accounts, nextId, inv, faults, runs, hist,
                   foreignKey, req>>

\* DELETE /:id: the transaction is the user's, balance - transaction.amount
DeleteTransaction(id) ==
    /\ req.pc = "none"
    /\ faults + edits < MaxDisturbances
    /\ edits' = edits + 1
    /\ \E t \in transactions :
         /\ t.id = id /\ t.user_id = UserId
         /\ accounts' = [a \in AccountIds |->
                           IF a = t.account_id /\ accounts[a].user_id = UserId
                           THEN [accounts[a] EXCEPT !.balance = @ - t.amount]
                           ELSE accounts[a]]
         /\ req' = [req EXCEPT !.pc = "delete_row", !.tx = t,
                               !.consistent = BalanceMatchesEntries]
    /\ UNCHANGED <<recurring, transactions, nextId, inv, faults, runs, hist,
                   foreignKey>>

\* DELETE /:id: db('transactions').where({ id }).del()
DeleteRow ==
    /\ req.pc = "delete_row"
    /\ transactions' = { t \in transactions : t.id # req.tx.id }
    /\ req' = Done
    /\ UNCHANGED <<recurring, accounts, nextId, inv, faults, runs, edits, hist,
                   foreignKey>>

\* the rows of a result, here in the order of their ids
RECURSIVE RowsById(_)
RowsById(S) ==
    IF S = {} THEN <<>>
    ELSE LET t == CHOOSE x \in S : \A y \in S : x.id <= y.id
         IN  <<t>> \o RowsById(S \ {t})

\* POST /bulk-delete: the user's transactions among transaction_ids are read
BulkSelect(ids) ==
    /\ req.pc = "none"
    /\ faults + edits < MaxDisturbances
    /\ edits' = edits + 1
    /\ ids # {}
    /\ LET found == { t \in transactions : t.user_id = UserId /\ t.id \in ids }
       IN  /\ found # {}
           /\ req' = [req EXCEPT !.pc = "bulk_balance", !.rows = RowsById(found),
                                 !.ids = ids,
                                 !.consistent = BalanceMatchesEntries]
    /\ UNCHANGED <<recurring, transactions, accounts, nextId, inv, faults, runs,
                   hist, foreignKey>>

\* a variant that reverses the first transaction only
BulkBalanceOnce ==
    /\ req.pc = "bulk_balance"
    /\ LET t == Head(req.rows)
       IN  accounts' = [a \in AccountIds |->
                          IF a = t.account_id /\ accounts[a].user_id = UserId
                          THEN [accounts[a] EXCEPT !.balance = @ - t.amount]
                          ELSE accounts[a]]
    /\ req' = [req EXCEPT !.rows = <<>>, !.pc = "bulk_rows"]
    /\ UNCHANGED <<recurring, transactions, nextId, inv, faults, runs, edits, hist,
                   foreignKey>>

\* POST /bulk-delete: balance - transaction.amount, for the next transaction
BulkBalance ==
    /\ req.pc = "bulk_balance"
    /\ LET t == Head(req.rows)
       IN  accounts' = [a \in AccountIds |->
                          IF a = t.account_id /\ accounts[a].user_id = UserId
                          THEN [accounts[a] EXCEPT !.balance = @ - t.amount]
                          ELSE accounts[a]]
    /\ req' = [req EXCEPT !.rows = Tail(@),
                          !.pc = IF Len(req.rows) = 1 THEN "bulk_rows" ELSE @]
    /\ UNCHANGED <<recurring, transactions, nextId, inv, faults, runs, edits, hist,
                   foreignKey>>

\* POST /bulk-delete: whereIn('id', transaction_ids).del()
BulkRows ==
    /\ req.pc = "bulk_rows"
    /\ transactions' = { t \in transactions :
                           ~(t.user_id = UserId /\ t.id \in req.ids) }
    /\ req' = Done
    /\ UNCHANGED <<recurring, accounts, nextId, inv, faults, runs, edits, hist,
                   foreignKey>>

\* a storage call of the handler throws (the catch answers 500) or the
\* process stops: the handler ends with the calls it has made
RequestAborts ==
    /\ req.pc # "none"
    /\ req' = [NoRequest EXCEPT !.aborted = TRUE, !.zone = req.zone]
    /\ UNCHANGED <<recurring, transactions, accounts, nextId, inv, faults, runs,
                   edits, hist, foreignKey>>

\* the handlers go on
Handle ==
    CreateBalance \/ CreateRecurring \/ DeleteRow \/ BulkBalance \/ BulkRows

\* the sets of ids a bulk delete names
BulkIds == { ids \in SUBSET (1..(nextId - 1)) : Cardinality(ids) \in {1, 2} }

\* a request arrives; the recurring transactions are created on account 1
Request ==
    \/ \E a \in AccountIds, d \in ManualDates, n \in ManualAmounts :
         CreateTransaction(a, d, n, FALSE)
    \/ \E d \in ManualDates, n \in ManualAmounts : CreateTransaction(1, d, n, TRUE)
    \/ \E id \in 1..(nextId - 1), body \in EntryBodies : UpdateTransaction(id, body)
    \/ \E id \in 1..(nextId - 1) : DeleteTransaction(id)
    \/ \E ids \in BulkIds : BulkSelect(ids)

----------------------------------------------------------------------------
(* DELETE /recurring/:id: the user deletes a template *)

\* The foreign key of transactions.recurring_transaction_id, ON DELETE SET
\* NULL, is there when the table recurring_transactions existed at the time
\* the migration ran.  The first deletion settles which of the two it is.
ForeignKeys == IF foreignKey = "unknown" THEN {"yes", "no"} ELSE {foreignKey}

\* a variant in which the deletion cascades to the generated transactions
OnDeleteCascade(txs, id) == { t \in txs : t.recurring_transaction_id # id }

\* ON DELETE SET NULL: the generated transactions lose their link
OnDeleteSetNull(txs, id) ==
    { [t EXCEPT !.recurring_transaction_id = IF @ = id THEN NULL ELSE @] :
        t \in txs }

\* the handler answers 404 when the row is not the user's; otherwise it
\* deletes the row
DeleteRecurring(id) ==
    /\ faults + edits < MaxDisturbances
    /\ recurring[id].exists
    /\ recurring[id].user_id = UserId
    /\ recurring' = [recurring EXCEPT ![id] = NoTemplate]
    /\ \E fk \in ForeignKeys :
         /\ foreignKey' = fk
         /\ transactions' = IF fk = "yes" THEN OnDeleteSetNull(transactions, id)
                            ELSE transactions
    /\ edits' = edits + 1
    /\ hist' = [hist EXCEPT !.deleted = @ \cup {id}]
    /\ UNCHANGED <<accounts, nextId, inv, faults, runs, req>>

----------------------------------------------------------------------------
(* Specifications *)

Init ==
    /\ \E t1 \in InitialTemplates :
         recurring = [id \in TemplateIds |-> IF id = 1 THEN t1 ELSE NoTemplate]
    /\ transactions = {}
    /\ accounts = [a \in AccountIds |-> [balance |-> 0, user_id |-> UserId]]
    /\ nextId = 1
    /\ inv = [i \in Procs |-> Idle]
    /\ faults = 0
    /\ runs = 0
    /\ edits = 0
    /\ hist = [everFault |-> FALSE, prevOk |-> FALSE, prevNow |-> NULL,
               prevCount |-> 0, prevCrash |-> FALSE, endChanged |-> {},
               deleted |-> {}, reactivated |-> {}]
    /\ foreignKey = "unknown"
    /\ req = NoRequest

Step(i) ==
    \/ \E now \in Nows : Start(i, now)
    \/ \E now \in Nows : StartFail(i, now)
    \/ Select(i)
    \/ Insert(i)
    \/ Balance(i)
    \/ Update(i)
    \/ Fail(i)
    \/ Crash(i)

\* invocations that do not overlap: one runs to its end, or to a crash, before
\* the next one starts
NextSeq == Step(1)

SpecSeq == Init /\ [][NextSeq]_vars

UserEdit ==
    \/ \E id \in TemplateIds, body \in EditBodies : UpdateRecurring(id, body)
    \/ \E id \in TemplateIds : DeleteRecurring(id)

\* non-overlapping invocations and user edits of the templates, at any point
NextEdit == Step(1) \/ UserEdit

SpecEdit == Init /\ [][NextEdit]_vars

\* Two active templates on one account: template 1 on day 10, never
\* processed, template 2 on day 31, seeded; each with or without an end date.
PairTemplates ==
    { t \in InitialTemplates \X InitialTemplates :
        /\ t[1].is_active /\ t[2].is_active
        /\ t[1].day_of_month = 10 /\ t[2].day_of_month = 31
        /\ t[1].end_date \in {NULL, CompactDate(2024, 2, 15)}
        /\ t[2].end_date \in {NULL, CompactDate(2024, 1, 31)}
        /\ t[1].last_processed = NULL /\ t[2].last_processed # NULL }

InitPair ==
    /\ \E t \in PairTemplates :
         recurring = [id \in TemplateIds |-> t[id]]
    /\ transactions = {}
    /\ accounts = [a \in AccountIds |-> [balance |-> 0, user_id |-> UserId]]
    /\ nextId = 1
    /\ inv = [i \in Procs |-> Idle]
    /\ faults = 0
    /\ runs = 0
    /\ edits = 0
    /\ hist = [everFault |-> FALSE, prevOk |-> FALSE, prevNow |-> NULL,
               prevCount |-> 0, prevCrash |-> FALSE, endChanged |-> {},
               deleted |-> {}, reactivated |-> {}]
    /\ foreignKey = "unknown"
    /\ req = NoRequest

\* non-overlapping invocations over two templates
SpecPair == InitPair /\ [][NextSeq]_vars

\* The endpoint is called again and again (daily by cron, or by hand), with a
\* clock that does not go back: an invocation like Start, with no bound on
\* the number of invocations.
Invoke(i, now) ==
    /\ inv[i].pc \notin Running
    /\ now >= inv[i].now
    /\ LET ids == { id \in TemplateIds : Eligible(recurring[id], now) }
       IN  \E o \in Orders(ids) :
             inv' = [inv EXCEPT ![i] =
                       NextTemplate([Idle EXCEPT !.now = now, !.order = o,
                                                 !.pre = Storage], 1)]
    /\ hist' = [hist EXCEPT
                  !.prevOk = inv[i].pc = "returned" /\ inv[i].clean,
                  !.prevNow = inv[i].now,
                  !.prevCount = inv[i].totalProcessed,
                  !.prevCrash = inv[i].pc = "crashed" /\ inv[i].mi > 1]
    /\ UNCHANGED <<recurring, transactions, accounts, nextId, faults, runs, edits, foreignKey, req>>

\* the storage calls of an invocation in progress, when they succeed
Proceed(i) == Select(i) \/ Insert(i) \/ Balance(i) \/ Update(i)

NextLive ==
    \/ \E now \in Nows : Invoke(1, now)
    \/ \E now \in Nows : now >= inv[1].now /\ StartFail(1, now)
    \/ Proceed(1)
    \/ Fail(1)
    \/ Crash(1)

\* Invocations that do not overlap and keep coming; every storage call gets
\* its answer; the faults are those the bound allows, so they stop.
SpecLive ==
    /\ Init
    /\ [][NextLive]_vars
    /\ WF_vars(\E now \in Nows : Invoke(1, now))
    /\ WF_vars(Proceed(1))

\* One active template for each day_of_month 1..31 (the day PUT
\* /recurring/:id may set) and each month of ClampYears, never processed and
\* started on the first of the month before.
ClampTemplates ==
    { Template(1, d, 3, TRUE,
               IF m = 1 THEN CompactDate(y - 1, 12, 1) ELSE CompactDate(y, m - 1, 1),
               NULL, NULL, TRUE) :
        y \in ClampYears, m \in 1..12, d \in 1..31 }

InitClamp ==
    /\ \E t \in ClampTemplates :
         recurring = [id \in TemplateIds |-> IF id = 1 THEN t ELSE NoTemplate]
    /\ transactions = {}
    /\ accounts = [a \in AccountIds |-> [balance |-> 0, user_id |-> UserId]]
    /\ nextId = 1
    /\ inv = [i \in Procs |-> Idle]
    /\ faults = 0
    /\ runs = 0
    /\ edits = 0
    /\ hist = [everFault |-> FALSE, prevOk |-> FALSE, prevNow |-> NULL,
               prevCount |-> 0, prevCrash |-> FALSE, endChanged |-> {},
               deleted |-> {}, reactivated |-> {}]
    /\ foreignKey = "unknown"
    /\ req = NoRequest

\* invocations in the month after start_date: they process that one month
NextClamp ==
    \/ \E now \in ClampNows :
         /\ LET first == NextMonth([month |-> getMonth1(recurring[1].start_date),
                                    year |-> getFullYear(recurring[1].start_date)])
            IN  getFullYear(now) = first.year /\ getMonth1(now) = first.month
         /\ Start(1, now)
    \/ Proceed(1)

SpecClamp == InitClamp /\ [][NextClamp]_vars

\* Two active templates on one account that no date makes eligible together:
\* template 1, an expense on day 10 started in December, ends on the day
\* template 2, an income on day 31, was created and seeded.
ParallelTemplates ==
    { <<Template(1, 10, 3, TRUE, CompactDate(2023, 12, 10), seed,
                 IF seeded THEN CompactDate(2023, 12, 10) ELSE NULL, TRUE),
        Template(1, 31, 3, FALSE, seed, NULL, seed, TRUE)>> :
        seed \in {CompactDate(2024, 1, 31), CompactDate(2024, 2, 29)},
        seeded \in BOOLEAN }

InitParallel ==
    /\ \E t \in ParallelTemplates :
         recurring = [id \in TemplateIds |-> t[id]]
    /\ transactions = {}
    /\ accounts = [a \in AccountIds |-> [balance |-> 0, user_id |-> UserId]]
    /\ nextId = 1
    /\ inv = [i \in Procs |-> Idle]
    /\ faults = 0
    /\ runs = 0
    /\ edits = 0
    /\ hist = [everFault |-> FALSE, prevOk |-> FALSE, prevNow |-> NULL,
               prevCount |-> 0, prevCrash |-> FALSE, endChanged |-> {},
               deleted |-> {}, reactivated |-> {}]
    /\ foreignKey = "unknown"
    /\ req = NoRequest

\* Two invocations that overlap, each started on a date at which its query
\* selects one template only, invocation i template i; every storage call
\* succeeds.
NextParallel ==
    \E i \in Procs :
        \/ \E now \in Nows :
             /\ { id \in TemplateIds : Eligible(recurring[id], now) } = {i}
             /\ Start(i, now)
        \/ Proceed(i)

SpecParallel == InitParallel /\ [][NextParallel]_vars

\* One template and a free row for a second one
LedgerTemplates ==
    { Template(1, 10, 3, TRUE, CompactDate(2023, 12, 10), NULL, last, TRUE) :
        last \in {NULL, CompactDate(2023, 12, 10)} }

InitLedger ==
    /\ \E r \in LedgerTemplates :
         recurring = [id \in TemplateIds |-> IF id = 1 THEN r ELSE NoTemplate]
    /\ transactions = {}
    /\ accounts = [a \in AccountIds |-> [balance |-> 0, user_id |-> UserId]]
    /\ nextId = 1
    /\ inv = [i \in Procs |-> Idle]
    /\ faults = 0
    /\ runs = 0
    /\ edits = 0
    /\ hist = [everFault |-> FALSE, prevOk |-> FALSE, prevNow |-> NULL,
               prevCount |-> 0, prevCrash |-> FALSE, endChanged |-> {},
               deleted |-> {}, reactivated |-> {}]
    /\ foreignKey = "unknown"
    /\ req = NoRequest

\* The engine and the routes of /api/transactions, one after the other: a
\* request is handled while no invocation runs and an invocation starts while
\* no request is being handled.
NextLedger ==
    \/ \E now \in Nows : req.pc = "none" /\ now >= inv[1].now /\ Start(1, now)
    \/ Proceed(1)
    \/ inv[1].pc \notin Running /\ Request
    \/ Handle
    \/ RequestAborts

SpecLedger == InitLedger /\ [][NextLedger]_vars

\* The storage an invocation leaves that crashed after it had handled the
\* first k months of an active template without end date and before it wrote
\* the marker: the transactions of those months are there, with their
\* amounts in the balance, and last_processed is as it was.
CrashedPasses ==
    { [r |-> r, now |-> now, k |-> k] :
        r \in { x \in InitialTemplates : x.is_active /\ x.end_date = NULL },
        now \in Nows, k \in 1..MaxPeriod }

InitResume ==
    /\ \E c \in CrashedPasses :
         /\ Eligible(c.r, c.now)
         /\ c.k <= Len(MonthsToProcess(c.r, c.now))
         /\ recurring = [id \in TemplateIds |-> IF id = 1 THEN c.r ELSE NoTemplate]
         /\ transactions =
              { [id |-> j, user_id |-> c.r.user_id, account_id |-> c.r.account_id,
                 date |-> TransactionDate(c.r, MonthsToProcess(c.r, c.now)[j].year,
                                          MonthsToProcess(c.r, c.now)[j].month),
                 amount |-> SignedAmount(c.r),
                 recurring_transaction_id |-> 1] : j \in 1..c.k }
         /\ accounts = [a \in AccountIds |->
                          [balance |-> IF a = c.r.account_id
                                       THEN c.k * SignedAmount(c.r) ELSE 0,
                           user_id |-> UserId]]
         /\ nextId = c.k + 1
    /\ inv = [i \in Procs |-> Idle]
    /\ faults = 0
    /\ runs = 0
    /\ edits = 0
    /\ hist = [everFault |-> FALSE, prevOk |-> FALSE, prevNow |-> NULL,
               prevCount |-> 0, prevCrash |-> FALSE, endChanged |-> {},
               deleted |-> {}, reactivated |-> {}]
    /\ foreignKey = "unknown"
    /\ req = NoRequest

\* after the crash: invocations one at a time, and the user edits the template
SpecResume == InitResume /\ [][NextEdit]_vars

\* another user of the application
OtherUserId == 2

\* Three transactions created by hand: two of the user on account 1 and a
\* third on account 2, which is the user's or, with account 2, another
\* user's; the balances hold their amounts.
ManualLedgers ==
    { [amounts |-> a, owner |-> u] :
        a \in [1..3 -> ManualAmounts], u \in {UserId, OtherUserId} }

InitDelete ==
    /\ \E l \in ManualLedgers :
         /\ transactions =
              { [id |-> j, user_id |-> IF j = 3 THEN l.owner ELSE UserId,
                 account_id |-> IF j = 3 THEN 2 ELSE 1,
                 date |-> CompactDate(2024, 1, 10), amount |-> l.amounts[j],
                 recurring_transaction_id |-> NULL] : j \in 1..3 }
         /\ accounts =
              [a \in AccountIds |->
                 IF a = 1
                 THEN [balance |-> l.amounts[1] + l.amounts[2], user_id |-> UserId]
                 ELSE [balance |-> l.amounts[3], user_id |-> l.owner]]
    /\ recurring = [id \in TemplateIds |-> NoTemplate]
    /\ nextId = 4
    /\ inv = [i \in Procs |-> Idle]
    /\ faults = 0
    /\ runs = 0
    /\ edits = 0
    /\ hist = [everFault |-> FALSE, prevOk |-> FALSE, prevNow |-> NULL,
               prevCount |-> 0, prevCrash |-> FALSE, endChanged |-> {},
               deleted |-> {}, reactivated |-> {}]
    /\ foreignKey = "unknown"
    /\ req = NoRequest

\* requests to the routes of /api/transactions, every storage call of which
\* succeeds
NextDelete == Request \/ Handle

SpecDelete == InitDelete /\ [][NextDelete]_vars

\* overlapping invocations (a cron tick and a manual trigger) and user edits
Next == (\E i \in Procs : Step(i)) \/ UserEdit

Spec == Init /\ [][Next]_vars

----------------------------------------------------------------------------
(* What the properties read *)

\* the transactions generated from template id that fall in period p
Generated(txs, id, p) ==
    { t \in txs : t.recurring_transaction_id = id /\ PeriodOf(t.date) = p }

GeneratedBy(txs, id) == { t \in txs : t.recurring_transaction_id = id }

\* the periods of the timeline, as year*100 + month
Periods ==
    { PeriodYM(TimelinePeriod(k).year, TimelinePeriod(k).month) : k \in 0..MaxPeriod }

PeriodYear(p) == p \div 100
PeriodMonth(p) == p % 100

\* invocation 1 has returned and every storage call of it succeeded
CleanReturn == inv[1].pc = "returned" /\ inv[1].clean

----------------------------------------------------------------------------
(* Properties *)

\* C1: under non-overlapping invocations, crashes and storage faults
\* included, the ledger holds at most one transaction per template, account
\* and calendar month.
C1_UniquePerPeriod ==
    \A a, b \in transactions :
        ( /\ a.recurring_transaction_id # NULL
          /\ a.recurring_transaction_id = b.recurring_transaction_id
          /\ a.account_id = b.account_id
          /\ PeriodOf(a.date) = PeriodOf(b.date) ) => a.id = b.id

\* an invocation that followed a crashed one met a month the crashed one had
\* materialized, and materialized the months after it
C1_Witness ==
    /\ inv[1].pc = "returned"
    /\ hist.prevCrash
    /\ inv[1].created # {}
    /\ \E t \in inv[1].pre.transactions : t.recurring_transaction_id = 1

\* C3: starting from balance 0 and no entries, after any sequence of
\* invocations that all completed without a fault and did not overlap, each
\* account's balance is the sum of the amounts of its transactions.
C3_BalanceConsistency ==
    (~hist.everFault /\ inv[1].pc \notin Running) => BalanceMatchesEntries

\* two fault-free invocations have completed and the account carries expenses
C3_Witness ==
    /\ ~hist.everFault
    /\ inv[1].pc = "returned"
    /\ runs = 2
    /\ inv[1].created # {}
    /\ inv[1].pre.transactions # {}
    /\ accounts[1].balance < 0

\* C4: whenever no invocation is in progress, crashes and storage faults
\* between two storage calls included, every generated transaction has its
\* amount in the balance and the balance holds nothing else.
C4_AtomicMaterialization ==
    inv[1].pc \notin Running => BalanceMatchesEntries

\* C5: an invocation that follows a completed fault-free invocation with the
\* same date, and is itself fault-free, returns 0 and leaves the transactions,
\* the balances and the templates as it found them.
C5_Idempotent ==
    (CleanReturn /\ hist.prevOk /\ hist.prevNow = inv[1].now) =>
        /\ inv[1].totalProcessed = 0
        /\ Storage = inv[1].pre

\* the second of two invocations with the same date has returned, and the
\* first one had created several transactions
C5_Witness ==
    /\ CleanReturn
    /\ hist.prevOk
    /\ hist.prevNow = inv[1].now
    /\ hist.prevCount >= 2

\* the periods after period p up to the period of date now
PeriodsAfter(p, now) == { q \in Periods : q > p /\ q <= PeriodOf(now) }

\* template id, as the invocation read it, is active and has no end date
OpenTemplate(id) ==
    LET r == inv[1].pre.recurring[id]
    IN  r.exists /\ r.is_active /\ r.end_date = NULL

\* the transactions invocation 1 inserted for template id
CreatedFor(id) ==
    { t \in GeneratedBy(transactions, id) : t.id \in inv[1].created }

\* the transactions of S came in ascending order of their periods
Ascending(S) ==
    \A a, b \in S : a.id < b.id <=> PeriodOf(a.date) < PeriodOf(b.date)

\* C6: when an invocation stopped in a template's pass after a period was
\* handled and before the next one was, the next invocation (fault-free) leaves
\* every period after the marker up to its date, whose entry date is not after
\* the end date, with exactly one entry, inserting one only where there was
\* none.
C6_CrashResumption ==
    (CleanReturn /\ hist.prevCrash) =>
        \A id \in TemplateIds :
            LET r == inv[1].pre.recurring[id]
            IN  (r.exists /\ r.is_active /\ r.last_processed # NULL) =>
                \A p \in PeriodsAfter(PeriodOf(r.last_processed), inv[1].now) :
                    (r.end_date = NULL
                       \/ TransactionDate(r, PeriodYear(p), PeriodMonth(p)) <= r.end_date)
                    => /\ Cardinality(Generated(transactions, id, p)) = 1
                       /\ Generated(inv[1].pre.transactions, id, p) # {}
                            <=> Generated(transactions, id, p) \cap CreatedFor(id) = {}

\* The part of C6 that the end-date filter of the query does not reach: for
\* an active template without end date, the invocation after a crash leaves
\* every period after the starting point up to its date with exactly one
\* entry, inserting one only where there was none.
C6_ResumptionWithoutEndDate ==
    (CleanReturn /\ hist.prevCrash) =>
        \A id \in TemplateIds :
            OpenTemplate(id) =>
                \A p \in PeriodsAfter(PeriodOf(StartingPoint(inv[1].pre.recurring[id])),
                                      inv[1].now) :
                    /\ Cardinality(Generated(transactions, id, p)) = 1
                    /\ Generated(inv[1].pre.transactions, id, p) # {}
                         <=> Generated(transactions, id, p) \cap CreatedFor(id) = {}

\* never processed: no marker and no transaction generated from the template
NeverProcessed(id) ==
    /\ inv[1].pre.recurring[id].last_processed = NULL
    /\ GeneratedBy(inv[1].pre.transactions, id) = {}

Behind(id) ==
    /\ inv[1].pre.recurring[id].last_processed # NULL
    /\ PeriodOf(inv[1].pre.recurring[id].last_processed) < PeriodOf(inv[1].now)

\* C9 as stated: for an active template without end date whose marker is in
\* period M, a fault-free invocation in period T > M creates exactly one entry
\* for each period M+1..T, in ascending order, counts T-M for the template and
\* leaves the marker in period T.
C9_MissedMonthsCreated ==
    CleanReturn =>
        \A id \in TemplateIds :
            (OpenTemplate(id) /\ Behind(id)) =>
                LET due == PeriodsAfter(PeriodOf(inv[1].pre.recurring[id].last_processed),
                                        inv[1].now)
                IN  /\ \A p \in due :
                          Cardinality(Generated(transactions, id, p) \cap CreatedFor(id)) = 1
                    /\ Ascending(CreatedFor(id))
                    /\ inv[1].countOf[id] = Cardinality(due)
                    /\ PeriodOf(recurring[id].last_processed) = PeriodOf(inv[1].now)

\* C9 amended: it leaves exactly one entry in each period M+1..T, creating one,
\* in ascending order, for each of those periods that had none and for no
\* other period, counts the entries it created and leaves the marker in
\* period T.
C9_MissedMonthsFilled ==
    CleanReturn =>
        \A id \in TemplateIds :
            (OpenTemplate(id) /\ Behind(id)) =>
                LET due == PeriodsAfter(PeriodOf(inv[1].pre.recurring[id].last_processed),
                                        inv[1].now)
                IN  /\ \A p \in due :
                          /\ Cardinality(Generated(transactions, id, p)) = 1
                          /\ Generated(inv[1].pre.transactions, id, p) = {}
                               => Generated(transactions, id, p) \subseteq CreatedFor(id)
                    /\ \A t \in CreatedFor(id) :
                          /\ PeriodOf(t.date) \in due
                          /\ Generated(inv[1].pre.transactions, id, PeriodOf(t.date)) = {}
                    /\ Ascending(CreatedFor(id))
                    /\ inv[1].countOf[id] = Cardinality(CreatedFor(id))
                    /\ PeriodOf(recurring[id].last_processed) = PeriodOf(inv[1].now)

\* a template two or more periods behind was caught up in one invocation
C9_Witness ==
    /\ CleanReturn
    /\ OpenTemplate(1) /\ Behind(1)
    /\ Cardinality(CreatedFor(1)) >= 2
    /\ inv[1].countOf[1] >= 2

\* C2: when invocations overlap, the ledger never holds two entries of one
\* template in one period, and once the invocations have ended without a
\* fault the balance carries the template's amount once per period.
C2_ConcurrentInvocationSafety ==
    /\ \A id \in TemplateIds, p \in Periods :
          Cardinality(Generated(transactions, id, p)) <= 1
    /\ (Sequential /\ ~hist.everFault /\ edits = 0) =>
          accounts[1].balance =
              SignedAmount(recurring[1])
                * Cardinality({ p \in Periods : Generated(transactions, 1, p) # {} })

\* C7: no step lowers a template's last_processed.
C7_MarkerMonotonic ==
    [][\A id \in TemplateIds :
          (recurring[id].exists /\ recurring'[id].exists)
          => recurring'[id].last_processed >= recurring[id].last_processed]_vars

\* C10: no transaction generated from a template whose end date is set and
\* was never changed is dated after that end date.
C10_EndDateSafety ==
    \A t \in transactions :
        LET id == t.recurring_transaction_id
        IN  (id # NULL /\ recurring[id].exists /\ recurring[id].end_date # NULL
               /\ id \notin hist.endChanged)
            => t.date <= recurring[id].end_date

\* a pass stopped at the end date: the template has an entry dated on its end
\* date, and the invocation, run in a later period, created none after it
C10_Witness ==
    /\ inv[1].pc = "returned"
    /\ recurring[1].end_date # NULL
    /\ 1 \notin hist.endChanged
    /\ \E t \in transactions :
          t.recurring_transaction_id = 1 /\ t.date = recurring[1].end_date

\* C11: after a fault-free invocation whose date is later than the end date of
\* an active template, every period after the template's starting point whose
\* clamped entry date is on or before the end date has an entry.
C11_EndDateCompleteness ==
    CleanReturn =>
        \A id \in TemplateIds :
            LET r == inv[1].pre.recurring[id]
            IN  (r.exists /\ r.is_active /\ r.end_date # NULL
                   /\ inv[1].now > r.end_date) =>
                \A p \in PeriodsAfter(PeriodOf(StartingPoint(r)), inv[1].now) :
                    TransactionDate(r, PeriodYear(p), PeriodMonth(p)) <= r.end_date
                    => Generated(transactions, id, p) # {}

\* C12: whenever the invocation is about to handle a month of a template's
\* pass after having handled the month before it, the stored last_processed
\* of the template already is the entry date of that month before.
C12_PerPeriodCheckpoint ==
    (inv[1].pc \in {"select", "insert"} /\ inv[1].mi > 1) =>
        recurring[CurrentId(inv[1])].last_processed = inv[1].lastProcessedDate

\* What one pass over template id must do, from the row r the invocation
\* read, the transactions txs in the ledger before it and its date: the pass
\* stops at the first month that has no entry and whose entry date is after
\* the end date, and handles the months before that one.
PassMonths(r, now) == MonthsToProcess(r, now)

\* the entry date of the k-th of the months
MonthDate(r, months, k) == TransactionDate(r, months[k].year, months[k].month)

\* the entries of template id in txs for the k-th of the months
MonthEntries(id, txs, months, k) ==
    Generated(txs, id, PeriodYM(months[k].year, months[k].month))

PassDate(r, now, k) == MonthDate(r, PassMonths(r, now), k)

PassEntries(r, id, txs, now, k) == MonthEntries(id, txs, PassMonths(r, now), k)

StopIn(r, id, txs, months) ==
    LET stops == { k \in 1..Len(months) :
                     /\ MonthEntries(id, txs, months, k) = {}
                     /\ r.end_date # NULL
                     /\ MonthDate(r, months, k) > r.end_date }
    IN  IF stops = {} THEN Len(months) + 1
        ELSE CHOOSE k \in stops : \A j \in stops : k <= j

PassStop(r, id, txs, now) == StopIn(r, id, txs, PassMonths(r, now))

\* the dates of the entries the pass must insert
PassNewDates(r, id, txs, now) ==
    LET months == PassMonths(r, now)
        stop == StopIn(r, id, txs, months)
    IN  { MonthDate(r, months, k) :
            k \in { j \in 1..(stop - 1) : MonthEntries(id, txs, months, j) = {} } }

\* the markers the pass may leave
PassMarkers(r, id, txs, now) ==
    LET months == PassMonths(r, now)
        last == StopIn(r, id, txs, months) - 1
    IN  IF last = 0 THEN {r.last_processed}
        ELSE IF MonthEntries(id, txs, months, last) = {}
        THEN {MonthDate(r, months, last)}
        ELSE { t.date : t \in MonthEntries(id, txs, months, last) }

\* template b, which the invocation selected and whose pass did not fail, ends
\* as its pass alone would leave it
PassAsAlone(b) ==
    LET r == inv[1].pre.recurring[b]
        new == PassNewDates(r, b, inv[1].pre.transactions, inv[1].now)
    IN  /\ GeneratedBy(transactions, b) =
             GeneratedBy(inv[1].pre.transactions, b) \cup CreatedFor(b)
        /\ { t.date : t \in CreatedFor(b) } = new
        /\ Cardinality(CreatedFor(b)) = Cardinality(new)
        /\ \A t \in CreatedFor(b) :
              t.amount = SignedAmount(r) /\ t.account_id = r.account_id
        /\ inv[1].countOf[b] = Cardinality(new)
        /\ recurring[b].last_processed \in
             PassMarkers(r, b, inv[1].pre.transactions, inv[1].now)

\* C13: a storage call that fails in the pass of one template does not make
\* the invocation throw, and when the invocation has returned every other
\* template it selected has the entries, the balance adjustments and the
\* marker that its own pass alone produces, and the balance has moved by the
\* adjustments made and by nothing else.
C13_FailureIsolation ==
    /\ inv[1].failed # {} => inv[1].pc # "thrown"
    /\ inv[1].pc = "returned" =>
          /\ \A b \in TemplateIds \ inv[1].failed :
                Eligible(inv[1].pre.recurring[b], inv[1].now) => PassAsAlone(b)
          /\ accounts[1].balance - inv[1].pre.accounts[1].balance =
                inv[1].countOf[1] * SignedAmount(inv[1].pre.recurring[1])
                  + inv[1].countOf[2] * SignedAmount(inv[1].pre.recurring[2])

\* the pass of one template inserted an entry and then failed, and the
\* invocation went on to the other template and inserted its entries
C13_Witness ==
    /\ inv[1].pc = "returned"
    /\ \E a, b \in TemplateIds :
          /\ inv[1].failed = {a}
          /\ b # a
          /\ CreatedFor(a) # {}
          /\ Cardinality(CreatedFor(b)) >= 2
          /\ \A x \in CreatedFor(a), y \in CreatedFor(b) : x.id < y.id
          /\ PassAsAlone(b)

\* the periods from period p up to the period of date now, p included
PeriodsFrom(p, now) == { q \in Periods : p <= q /\ q <= PeriodOf(now) }

\* template id is active and has no end date
OpenNow(id) ==
    recurring[id].exists /\ recurring[id].is_active /\ recurring[id].end_date = NULL

\* every period of due has exactly one entry of template id and, when there is
\* such a period, the marker is in the period of the last invocation's date
CaughtUp(id, due) ==
    /\ \A p \in due : Cardinality(Generated(transactions, id, p)) = 1
    /\ due # {} => PeriodOf(recurring[id].last_processed) = PeriodOf(inv[1].now)

C15_ProcessedCountAccuracy ==
    inv[1].pc = "returned" =>
        inv[1].totalProcessed = Cardinality(inv[1].created)

\* C16: an invocation whose storage fault was not in the pass of a template,
\* that is, whose query of the templates failed, has thrown and not returned
\* a count; and an invocation that has thrown inserted no transaction and
\* left the transactions, the balances and the templates as it found them.
C16_SystemicFailure ==
    /\ (~inv[1].clean /\ inv[1].failed = {} /\ inv[1].pc # "crashed") =>
          inv[1].pc = "thrown"
    /\ inv[1].pc = "thrown" =>
          /\ Storage = inv[1].pre
          /\ inv[1].created = {}
          /\ inv[1].totalProcessed = 0

\* the query failed while the template had months to process, after an
\* earlier invocation had created entries
C16_Witness ==
    /\ inv[1].pc = "thrown"
    /\ inv[1].pre.transactions # {}
    /\ Eligible(recurring[1], inv[1].now)
    /\ MonthsToProcess(recurring[1], inv[1].now) # <<>>

\* every template is inactive or has its marker in the period of the
\* invocation's date or in a later one
NoDueWork ==
    \A id \in TemplateIds :
        LET r == inv[1].pre.recurring[id]
        IN  r.exists =>
              \/ ~r.is_active
              \/ r.last_processed # NULL
                   /\ PeriodOf(r.last_processed) >= PeriodOf(inv[1].now)

\* C17: an invocation that finds no due work and meets no storage fault makes
\* no storage call after its query: it has returned 0, it has not thrown, and
\* the transactions, the balances and the templates are as it found them.
C17_NoDueWork ==
    (inv[1].pc # "idle" /\ inv[1].clean /\ NoDueWork) =>
        /\ inv[1].pc = "returned"
        /\ inv[1].totalProcessed = 0
        /\ Storage = inv[1].pre

\* an invocation dated in a period before the marker's selected the active
\* template, found no month to process and returned 0
C17_Witness ==
    /\ CleanReturn
    /\ NoDueWork
    /\ recurring[1].is_active
    /\ Eligible(recurring[1], inv[1].now)
    /\ transactions # {}
    /\ inv[1].totalProcessed = 0

\* C18: for a template that is inactive when an invocation reads the
\* templates, the invocation inserts no transaction, makes no balance update
\* on its behalf, and leaves the row in place with its marker unchanged,
\* however many periods are pending; the row goes only when the user deletes
\* it.
C18_InactiveSkipped ==
    \A id \in TemplateIds :
        LET r == inv[1].pre.recurring[id]
        IN  (inv[1].pc # "idle" /\ r.exists /\ ~r.is_active) =>
              /\ CreatedFor(id) = {}
              /\ inv[1].countOf[id] = 0
              /\ recurring[id].exists \/ id \in hist.deleted
              /\ recurring[id].exists =>
                    recurring[id].last_processed = r.last_processed

\* the template was processed, then deactivated by the user, and a later
\* invocation dated in a later period than the marker has returned
C18_Witness ==
    /\ CleanReturn
    /\ edits = 1
    /\ ~inv[1].pre.recurring[1].is_active
    /\ GeneratedBy(inv[1].pre.transactions, 1) # {}
    /\ PeriodsAfter(PeriodOf(recurring[1].last_processed), inv[1].now) # {}
    /\ recurring[1].end_date = NULL

\* C19: a step that deactivates or deletes a template leaves every
\* transaction in the ledger, with its amount, its date and its account, and
\* changes no balance.
C19_EntriesSurviveTemplate ==
    [][(\E id \in TemplateIds :
          /\ recurring[id].exists
          /\ \/ ~recurring'[id].exists
             \/ recurring[id].is_active /\ ~recurring'[id].is_active)
       => /\ \A t \in transactions :
                \E u \in transactions' :
                    /\ u.id = t.id
                    /\ u.amount = t.amount
                    /\ u.date = t.date
                    /\ u.account_id = t.account_id
          /\ Cardinality(transactions') = Cardinality(transactions)
          /\ accounts' = accounts]_vars

\* a template with several generated transactions was deleted, the foreign
\* key took their link away, and they are all there
C19_Witness ==
    /\ 1 \in hist.deleted
    /\ foreignKey = "yes"
    /\ Cardinality({ t \in transactions : t.recurring_transaction_id = NULL }) >= 2
    /\ accounts[1].balance = SumAmounts(transactions)

\* the number of days of a month of the Gregorian calendar
DaysInMonth(year, month) ==
    IF month = 2 /\ year % 4 = 0 /\ (year % 100 # 0 \/ year % 400 = 0) THEN 29
    ELSE <<31, 28, 31, 30, 31, 30, 31, 31, 30, 31, 30, 31>>[month]

\* C20: the transaction the engine has just inserted for a target month is
\* dated in that year and month, on the day day_of_month when the month has
\* it and on the last day of the month otherwise, leap years included.
C20_Clamping ==
    inv[1].pc = "balance" =>
        LET target == CurrentTarget(inv[1])
            dom == CurrentRow(inv[1]).day_of_month
        IN  \E t \in transactions :
              /\ t.id = nextId - 1
              /\ getFullYear(t.date) = target.year
              /\ getMonth1(t.date) = target.month
              /\ getDate(t.date) =
                   IF dom <= DaysInMonth(target.year, target.month) THEN dom
                   ELSE DaysInMonth(target.year, target.month)

\* day 31 gave the 28th in February 1900, which is not a leap year
C20_Witness ==
    /\ recurring[1].day_of_month = 31
    /\ \E t \in transactions :
          t.recurring_transaction_id = 1 /\ t.date = CompactDate(1900, 2, 28)

\* the transaction the invocation has just inserted
JustInserted == CHOOSE t \in transactions : t.id = nextId - 1

\* C21: the transaction the engine inserts for a template carries minus the
\* template's amount when the template is an expense and the amount
\* otherwise, the template's id and the template's account, and the balance
\* update that follows adds exactly the amount of that transaction to the
\* balance of that account.
C21_SignedAmount ==
    [][(inv[1].pc = "balance" /\ faults' = faults) =>
          LET r == CurrentRow(inv[1])
              t == JustInserted
          IN  /\ t.amount = IF r.is_expense THEN 0 - r.amount ELSE r.amount
              /\ t.recurring_transaction_id = CurrentId(inv[1])
              /\ t.account_id = r.account_id
              /\ accounts'[r.account_id].balance =
                    accounts[r.account_id].balance + t.amount]_vars

\* an income template and an expense template each got entries and the
\* balance moved by both
C21_Witness ==
    /\ inv[1].pc = "returned"
    /\ \E t \in transactions : t.amount > 0 /\ t.recurring_transaction_id = 2
    /\ \E t \in transactions : t.amount < 0 /\ t.recurring_transaction_id = 1
    /\ accounts[1].balance = SumAmounts(transactions)

\* the transactions invocation i inserted for template id
CreatedBy(i, id) ==
    { t \in GeneratedBy(transactions, id) : t.id \in inv[i].created }

\* template b ends as the pass of invocation i over it, alone, leaves it
PassAsAloneOf(i, b) ==
    LET r == inv[i].pre.recurring[b]
        new == PassNewDates(r, b, inv[i].pre.transactions, inv[i].now)
    IN  /\ GeneratedBy(transactions, b) =
             GeneratedBy(inv[i].pre.transactions, b) \cup CreatedBy(i, b)
        /\ { t.date : t \in CreatedBy(i, b) } = new
        /\ Cardinality(CreatedBy(i, b)) = Cardinality(new)
        /\ \A t \in CreatedBy(i, b) :
              t.amount = SignedAmount(r) /\ t.account_id = r.account_id
        /\ inv[i].countOf[b] = Cardinality(new)
        /\ recurring[b].last_processed \in
             PassMarkers(r, b, inv[i].pre.transactions, inv[i].now)

\* C22: when two invocations, each working on its own template of one shared
\* account, have run to their end under any interleaving of their storage
\* calls, the balance has moved by the sum of the amounts of all the entries
\* inserted, and each template has the entries and the marker its own pass
\* alone produces.
C22_ParallelTemplates ==
    (inv[1].pc = "returned" /\ inv[2].pc = "returned") =>
        /\ accounts[1].balance = SumAmounts(transactions)
        /\ \A i \in Procs : PassAsAloneOf(i, i)

\* both invocations inserted entries, and the first entry of each was
\* inserted before the last entry of the other
C22_Witness ==
    /\ inv[1].pc = "returned" /\ inv[2].pc = "returned"
    /\ \E a, b \in CreatedBy(1, 1), c, d \in CreatedBy(2, 2) :
          a.id < d.id /\ c.id < b.id
    /\ accounts[1].balance = SumAmounts(transactions)

\* C23: an entry the invocation creates for a calendar month is dated on a day
\* the invocation's current date has reached: no entry of the current month
\* is created before the template's (clamped) day of that month.
C23_OnSpecifiedDay ==
    \A t \in transactions :
        t.id \in inv[1].created => t.date <= inv[1].now

\* C24: while no storage call has failed and no handler or invocation is in
\* the middle of its storage calls, the balance of every account is its
\* initial balance plus the sum of the amounts of the account's entries,
\* whatever creations, updates, deletions, bulk deletions and invocations of
\* the engine came before.
C24_AccountInvariant ==
    (/\ ~req.aborted
     /\ req.pc = "none"
     /\ inv[1].pc \notin Running) => BalanceMatchesEntries

\* C25: a creation, a deletion or a bulk deletion that started while the
\* balances matched the transactions leaves them matching when its handler
\* ends, whether it ends after its last storage call or between two of them
\* (a storage fault, a crash).
C25_AtomicExternalMutation ==
    [][(req.pc # "none" /\ req'.pc = "none" /\ req.consistent)
          => BalanceMatchesEntries']_vars

\* C26: every transaction a step of the engine inserts for a template lies in
\* a month strictly after the month of the last_processed (of the start_date
\* when there is none) the invocation read for that template, and not after
\* the month of the invocation's current date; so a generated transaction the
\* user deleted from a month up to the marker's is not created again.
C26_NoEarlierPeriod ==
    [][inv' # inv =>
         \A t \in transactions' \ transactions :
             LET r == inv[1].pre.recurring[t.recurring_transaction_id]
             IN  /\ PeriodOf(t.date) > PeriodOf(StartingPoint(r))
                 /\ PeriodOf(t.date) <= PeriodOf(inv[1].now)]_vars

\* the user deleted the transaction generated for January, and the next
\* invocation, in February, created the one of February only
C26_Witness ==
    /\ inv[1].pc = "returned" /\ inv[1].now = CompactDate(2024, 2, 12)
    /\ ~req.aborted /\ req.pc = "none"
    /\ nextId = 3 /\ Cardinality(transactions) = 1
    /\ PeriodOf(inv[1].pre.recurring[1].last_processed) = PeriodYM(2024, 1)
    /\ Generated(inv[1].pre.transactions, 1, PeriodYM(2024, 1)) = {}
    /\ Generated(transactions, 1, PeriodYM(2024, 1)) = {}
    /\ \E t \in Generated(transactions, 1, PeriodYM(2024, 2)) : t.id \in inv[1].created

\* C27: when an invocation has returned, for every template its query
\* selected and whose pass it completed, and every month of that pass in which the template already had a
\* transaction when the invocation started: the month holds the same
\* transactions of the template as before, the invocation counts and adds to
\* the balance the transactions it inserted and nothing else, and the stored
\* last_processed is not before the date of the transaction that was there.
C27_AlreadyMaterialized ==
    inv[1].pc = "returned" =>
        \A id \in TemplateIds :
            (/\ Eligible(inv[1].pre.recurring[id], inv[1].now)
             /\ id \notin inv[1].failed) =>
            LET r == inv[1].pre.recurring[id]
                months == MonthsToProcess(r, inv[1].now)
            IN  \A k \in 1..Len(months) :
                    LET p == PeriodYM(months[k].year, months[k].month)
                        old == Generated(inv[1].pre.transactions, id, p)
                    IN  old # {} =>
                          /\ Generated(transactions, id, p) = old
                          /\ inv[1].countOf[id] = Cardinality(CreatedFor(id))
                          /\ accounts[r.account_id].balance
                               - inv[1].pre.accounts[r.account_id].balance =
                                 SumAmounts({ t \in transactions :
                                                t.id \in inv[1].created })
                          /\ \A t \in old : recurring[id].last_processed >= t.date

\* an invocation crashed after it had inserted the transaction of January; the
\* next one found it, inserted only the one of February and moved the marker
C27_Witness ==
    /\ inv[1].pc = "returned" /\ inv[1].clean
    /\ hist.prevCrash
    /\ Generated(inv[1].pre.transactions, 1, PeriodYM(2024, 1)) # {}
    /\ PeriodOf(StartingPoint(inv[1].pre.recurring[1])) = PeriodYM(2023, 12)
    /\ inv[1].totalProcessed = 1
    /\ PeriodOf(recurring[1].last_processed) = PeriodYM(2024, 2)

\* the months of the calendar counted from year 0
MonthIndex(year, month) == year * 12 + month - 1

\* the months strictly after the month of date from up to and including the
\* month of date to, in ascending order
ConsecutiveMonths(from, to) ==
    LET b == MonthIndex(getFullYear(from), getMonth1(from))
        t == MonthIndex(getFullYear(to), getMonth1(to))
    IN  [k \in 1..(IF t > b THEN t - b ELSE 0) |->
           [month |-> ((b + k) % 12) + 1, year |-> (b + k) \div 12]]

\* C28: for every template as stored and every current date, monthsToProcess
\* is the sequence of the calendar months strictly after the month of the
\* starting point up to and including the current month, in ascending order
\* without gap or repeat, January of the next year following December; it is
\* empty when the starting point lies in the current month or in a later one.
\* The months an invocation works on are that sequence.
C28_PeriodEnumeration ==
    /\ \A id \in TemplateIds : \A now \in Nows :
         recurring[id].exists =>
           MonthsToProcess(recurring[id], now) =
             ConsecutiveMonths(StartingPoint(recurring[id]), now)
    /\ inv[1].pc \in Running =>
         inv[1].months =
           ConsecutiveMonths(StartingPoint(CurrentRow(inv[1])), inv[1].now)

\* an invocation dated in March worked from December on the three months
\* January to March; the next one, dated in January, selected the template
\* again and found no month to process
C28_Witness ==
    /\ inv[1].pc = "returned" /\ inv[1].clean
    /\ inv[1].now = CompactDate(2024, 1, 12)
    /\ hist.prevOk /\ hist.prevCount = 3
    /\ PeriodOf(inv[1].pre.recurring[1].last_processed) = PeriodYM(2024, 3)
    /\ Eligible(inv[1].pre.recurring[1], inv[1].now)
    /\ MonthsToProcess(inv[1].pre.recurring[1], inv[1].now) = <<>>
    /\ Storage = inv[1].pre

\* C29: a step of the engine keeps every transaction there is as it is, keeps
\* every column of every template but last_processed, removes no template,
\* and changes of the accounts nothing but balances; what it may do is insert
\* transactions, change balances and set last_processed.
C29_EngineFrame ==
    [][inv' # inv =>
         /\ transactions \subseteq transactions'
         /\ \A id \in TemplateIds :
              recurring'[id] =
                [recurring[id] EXCEPT !.last_processed = recurring'[id].last_processed]
         /\ \A a \in AccountIds :
              accounts'[a] = [accounts[a] EXCEPT !.balance = accounts'[a].balance]
         /\ edits' = edits]_vars

\* a second invocation has inserted transactions next to those it found and
\* has moved the marker of a template whose end date lies before its date
C29_Witness ==
    /\ inv[1].pc = "returned" /\ inv[1].clean
    /\ inv[1].created # {}
    /\ inv[1].pre.transactions # {}
    /\ inv[1].pre.transactions \subseteq transactions
    /\ recurring[1].last_processed # inv[1].pre.recurring[1].last_processed
    /\ recurring[1].end_date # NULL /\ recurring[1].end_date < inv[1].now
    /\ recurring[1].is_active

\* the templates the query of invocation 1 selected
Selected == { b \in TemplateIds : Eligible(inv[1].pre.recurring[b], inv[1].now) }

\* the dates of the transactions the pass over template b has to insert, from
\* what the invocation found
NewDatesOf(b) ==
    PassNewDates(inv[1].pre.recurring[b], b, inv[1].pre.transactions, inv[1].now)

\* a transaction without its id
Content(t) ==
    [user_id |-> t.user_id, account_id |-> t.account_id, date |-> t.date,
     amount |-> t.amount, recurring_transaction_id |-> t.recurring_transaction_id]

\* the transactions the invocation has to insert, without their ids
ExpectedContents ==
    UNION { { [user_id |-> inv[1].pre.recurring[b].user_id,
               account_id |-> inv[1].pre.recurring[b].account_id,
               date |-> d,
               amount |-> SignedAmount(inv[1].pre.recurring[b]),
               recurring_transaction_id |-> b] : d \in NewDatesOf(b) } :
            b \in Selected }

RECURSIVE SumOver(_, _)
SumOver(S, f) ==
    IF S = {} THEN 0
    ELSE LET x == CHOOSE y \in S : TRUE IN f[x] + SumOver(S \ {x}, f)

\* C30: when an invocation without a fault has returned, the transactions
\* (their ids apart), the balances, the markers and the returned count are
\* what the storage the invocation found and its date determine, whatever
\* the order in which the query returned the templates.
C30_OrderIndependence ==
    CleanReturn =>
        /\ { Content(t) : t \in transactions } =
             { Content(t) : t \in inv[1].pre.transactions } \cup ExpectedContents
        /\ Cardinality(transactions) =
             Cardinality(inv[1].pre.transactions) + Cardinality(ExpectedContents)
        /\ \A a \in AccountIds :
             accounts[a].balance = inv[1].pre.accounts[a].balance +
               SumOver({ b \in Selected : inv[1].pre.recurring[b].account_id = a },
                       [b \in TemplateIds |->
                          Cardinality(NewDatesOf(b))
                            * SignedAmount(inv[1].pre.recurring[b])])
        /\ \A b \in TemplateIds :
             LET markers == PassMarkers(inv[1].pre.recurring[b], b,
                                        inv[1].pre.transactions, inv[1].now)
             IN  IF b \in Selected
                 THEN markers = {recurring[b].last_processed}
                 ELSE recurring[b] = inv[1].pre.recurring[b]
        /\ inv[1].totalProcessed =
             SumOver(Selected, [b \in TemplateIds |-> Cardinality(NewDatesOf(b))])

\* the query returned template 2 before template 1, and the invocation
\* inserted transactions for both
C30_Witness ==
    /\ CleanReturn
    /\ CreatedFor(1) # {} /\ CreatedFor(2) # {}
    /\ \A x \in CreatedFor(2), y \in CreatedFor(1) : x.id < y.id
    /\ inv[1].totalProcessed >= 3

\* invocation 1 has come to its end: it returned its count, it threw, or the
\* process stopped
Ended == inv[1].pc \in {"returned", "thrown", "crashed"}

\* C31: while an invocation runs, the months of the template it works on are
\* as many as lie between the month of the starting point and the current
\* month (none when the starting point is not before it) and the loop is at
\* one of them or, at the update of the marker, past them; and when every storage call gets its answer, a result or an
\* error, every invocation that runs comes to its end.
C31_Termination ==
    /\ [](inv[1].pc \in Running =>
            /\ Len(inv[1].months) =
                 Len(ConsecutiveMonths(StartingPoint(CurrentRow(inv[1])), inv[1].now))
            /\ inv[1].mi \in 1..(Len(inv[1].months) + 1)
            /\ inv[1].pc # "update" => inv[1].mi <= Len(inv[1].months)
            /\ inv[1].idx \in 1..Len(inv[1].order))
    /\ (inv[1].pc \in Running ~> Ended)

\* an invocation that had three months to work on, the year end among them,
\* has returned after a failed one
C31_Witness ==
    /\ inv[1].pc = "returned"
    /\ inv[1].totalProcessed = 3
    /\ getFullYear(StartingPoint(inv[1].pre.recurring[1])) = 2023
    /\ inv[1].now = CompactDate(2024, 3, 12)
    /\ hist.everFault

\* the month after the month of date, as a period
NextPeriod(date) ==
    LET m == NextMonth([month |-> getMonth1(date), year |-> getFullYear(date)])
    IN  PeriodYM(m.year, m.month)

\* C32, the template: the step of POST / that inserts the template of a
\* transaction dated D created with the recurring flag inserts an active
\* template with start_date D, last_processed D, day_of_month the day of D,
\* amount the absolute value and is_expense iff the amount is negative.
C32_SeededTemplate ==
    \A id \in TemplateIds :
        (req.pc = "create_recurring" /\ req'.pc = "none" /\ ~req'.aborted
           /\ ~recurring[id].exists /\ recurring'[id].exists) =>
        LET D == req.tx.date
        IN  recurring'[id] = Template(req.tx.account_id, getDate(D),
                                      Abs(req.tx.amount), req.tx.amount < 0,
                                      D, NULL, D, TRUE)

\* C32, the entries: a pass over a template whose marker is still its
\* start_date inserts its first transaction in the month after that date's,
\* and no step of the engine inserts a transaction of the template in the
\* month of that date.
C32_FirstGenerated ==
    inv' # inv =>
        \A t \in transactions' \ transactions :
            LET r == inv[1].pre.recurring[t.recurring_transaction_id]
            IN  (r.last_processed = r.start_date) =>
                    /\ PeriodOf(t.date) > PeriodOf(r.start_date)
                    /\ inv[1].countOf[t.recurring_transaction_id] = 0
                          => PeriodOf(t.date) = NextPeriod(r.start_date)

\* C32: opting a manual entry into recurring mode seeds the template with the
\* entry's date and day, and the engine generates from the month after.
C32_RecurringOptIn == [][C32_SeededTemplate /\ C32_FirstGenerated]_vars

\* the row of template id is, its marker apart, as invocation 1 read it
AsRead(id) ==
    [recurring[id] EXCEPT !.last_processed = NULL] =
        [inv[1].pre.recurring[id] EXCEPT !.last_processed = NULL]

\* the months of the pass over row r whose transaction date is not after the
\* end date of r
MonthsBeforeEnd(r, now) ==
    { k \in 1..Len(MonthsToProcess(r, now)) :
        r.end_date = NULL \/
        TransactionDate(r, MonthsToProcess(r, now)[k].year,
                        MonthsToProcess(r, now)[k].month) <= r.end_date }

\* C33: when a template the user has reactivated was active as the
\* invocation read it, and the invocation has returned without a fault, every
\* month after the month of the marker (of start_date when there is none)
\* up to the current month whose transaction date is not after the end date
\* has one transaction of the template, the months in which the template was
\* inactive included.
C33_ReactivationBackfills ==
    \A id \in hist.reactivated :
        (/\ CleanReturn
         /\ recurring[id].exists
         /\ inv[1].pre.recurring[id].is_active
         /\ AsRead(id)) =>
        LET r == inv[1].pre.recurring[id]
            months == MonthsToProcess(r, inv[1].now)
        IN  \A k \in MonthsBeforeEnd(r, inv[1].now) :
                Cardinality(Generated(transactions, id,
                                      PeriodYM(months[k].year, months[k].month))) = 1

\* C34: when the transaction date of the month an invocation is about to
\* handle is after the end date of the template as the invocation read it,
\* the storage call that answers leaves the loop over the months, whether or
\* not the month has a transaction of the template, and the marker an
\* invocation writes is never after that end date.
C34_CutoffBeforeExistence ==
    [][/\ (/\ inv[1].pc = "select"
           /\ inv' # inv /\ faults' = faults
           /\ CurrentRow(inv[1]).end_date # NULL
           /\ CurrentDate(inv[1]) > CurrentRow(inv[1]).end_date)
          => inv'[1] = AfterLoop(inv[1])
       /\ (/\ inv[1].pc = "update"
           /\ inv' # inv /\ faults' = faults
           /\ CurrentRow(inv[1]).end_date # NULL)
          => recurring'[CurrentId(inv[1])].last_processed
               <= CurrentRow(inv[1]).end_date]_vars

\* the ids the delete in progress names
DeleteIds == IF req.pc = "delete_row" THEN {req.tx.id} ELSE req.ids

\* C35: the last storage call of a single delete or of a bulk delete removes
\* the user's transactions among those the request names and no other, and
\* when the balances matched the transactions as the request arrived they
\* match them again: each account is lower by the sum of the amounts of its
\* deleted transactions, the accounts and transactions of other users are as
\* they were.
C35_DeletionReversesBalance ==
    [][(req.pc \in {"delete_row", "bulk_rows"} /\ req'.pc = "none") =>
         /\ transactions' =
              transactions \ { t \in transactions :
                                 t.user_id = UserId /\ t.id \in DeleteIds }
         /\ req.consistent =>
              /\ BalanceMatchesEntries'
              /\ \A a \in AccountIds :
                   accounts[a].user_id # UserId => accounts'[a] = accounts[a]]_vars

\* a bulk delete of the two transactions of account 1 has ended, the account
\* is at 0 and the transaction of the other user is there with its balance
C35_Witness ==
    /\ req.pc = "none" /\ ~req.aborted /\ edits = 1
    /\ \A t \in transactions : t.user_id = OtherUserId
    /\ Cardinality(transactions) = 1
    /\ accounts[1].balance = 0
    /\ accounts[2].balance = SumAmounts(transactions) /\ accounts[2].balance # 0

====
